---- MODULE Spec2Model ----
(***************************************************************************)
(* Multi-version transcode job pipeline of src/server.js.                  *)
(*                                                                         *)
(* The server runs on one event loop.  Every action below is one callback  *)
(* of that loop (an HTTP handler, an ffprobe/ffmpeg event, a timer)        *)
(* together with the promise continuations that run before the next        *)
(* callback.  The submission handlers are split at the call of             *)
(* processMultipleVersions (pc says where the handler stands); while a     *)
(* handler is between its two steps no other callback can run.             *)
(*                                                                         *)
(* lastResp is the HTTP response written by the step just taken; a step    *)
(* that answers no request leaves it at NoResp.  Job ids are the numbers   *)
(* of the uploads they belong to.  Time is counted in hours                *)
(* (Date.now() / 3600000); the clock is advanced only once a job carries   *)
(* a completedTime, the only value the code compares it with.              *)
(*                                                                         *)
(* spawned is the ffmpeg command built and run by the step just taken      *)
(* (its filter chains and the filter options of its command line), and     *)
(* NoCommand after a step that runs none.  SpecBuild starts where two      *)
(* five-version jobs wait for their ffprobe answers and lets the answers   *)
(* report several source geometries.                                       *)
(***************************************************************************)
EXTENDS Integers, Sequences, FiniteSets, TLC

\* ---------------------------------------------------------------- bounds
MaxUploads  == 1    \* uploads (requests carrying a file) accepted by multer
MaxVersions == 2    \* version workers launched over all jobs
MaxTime     == 2    \* last hour of the clock

\* ------------------------------------------------------ program constants
CLEANUP_AGE == 1    \* 60 * 60 * 1000 ms, in hours
MinVersions == 1
PresetCount == 5
ProgressCap == 99
ProgressDone == 100

\* Object.keys(VERSION_PRESETS), in insertion order
VERSION_PRESETS == <<"version1", "version2", "version3", "version4", "version5">>

\* VERSION_PRESETS[key].name
PresetNames ==
    [version1 |-> "Original Enhanced", version2 |-> "Warm & Slower",
     version3 |-> "Cool & Crisp", version4 |-> "Vibrant Motion",
     version5 |-> "Subtle Shift"]

\* job.completedTime while it is undefined
NoTime == -1

\* ------------------------------------------------------------ request data
Digits == <<"0", "1", "2", "3", "4", "5", "6", "7", "8", "9">>

DigitValue(c) == (CHOOSE i \in 1..10 : Digits[i] = c) - 1

IsDigit(c) == \E i \in 1..10 : Digits[i] = c

IsSpace(c) == c = " "

\* String(undefined), the text parseInt sees when the form field is absent
UndefinedField == <<"u", "n", "d", "e", "f", "i", "n", "e", "d">>

\* values of req.body.versionCount, as character sequences
VersionCountFields ==
    { UndefinedField, <<"0">>, <<"1">>, <<"2">>, <<"3">>, <<"4">>, <<"5">>,
      <<"6">>, <<"-", "1">>, <<" ", "3", "x">> }

\* values of progress.percent: absent, or a number given in tenths of a percent
PercentReports ==
    { [def |-> FALSE, tenths |-> 0] } \cup
    { [def |-> TRUE, tenths |-> t] : t \in {-55, 405, 1500} }

ProbeErrors  == {"ffprobe error", "No video stream found"}
EncodeErrors == {"ffmpeg error"}

\* ------------------------------------------------------------------- state
VARIABLES
    jobs,       \* the registry: job id -> job record
    workers,    \* job id -> version key -> state of that worker's promise
    coord,      \* job id -> whether processMultipleVersions is still awaiting
    timers,     \* job ids whose source-cleanup timeout is pending
    uploads,    \* upload ids whose file is in uploads/
    outputs,    \* <<job id, version key>> whose file is in processed/videos
    nextId,     \* number of uploads taken so far
    now,        \* Date.now(), in hours
    pc,         \* position of the running submission handler
    lastResp,   \* the HTTP response sent by the last step, NoResp if it sent none
    spawned     \* the ffmpeg command started by the last step, NoCommand if it started none

vars == <<jobs, workers, coord, timers, uploads, outputs, nextId, now, pc, lastResp, spawned>>

Idle == [state |-> "idle", job |-> 0, keys |-> <<>>]

NoResp == [op |-> "none", code |-> 0, error |-> "", job |-> 0,
           status |-> "", overallProgress |-> 0, versionCount |-> 0,
           versions |-> << >>, location |-> "", entries |-> {}]

Range(s) == { s[i] : i \in 1..Len(s) }

Min(a, b) == IF a < b THEN a ELSE b

RECURSIVE SumOver(_, _)
SumOver(f, S) ==
    IF S = {} THEN 0
    ELSE LET x == CHOOSE y \in S : TRUE IN f[x] + SumOver(f, S \ {x})

\* ------------------------------------------------------- pure computations
\* parseInt(text): skip leading blanks, an optional sign, then the longest
\* run of digits; NaN when that run is empty
RECURSIVE SkipSpaces(_)
SkipSpaces(s) ==
    IF s # <<>> /\ IsSpace(Head(s)) THEN SkipSpaces(Tail(s)) ELSE s

RECURSIVE DigitRun(_, _)
DigitRun(s, acc) ==
    IF s # <<>> /\ IsDigit(Head(s))
    THEN DigitRun(Tail(s), [n |-> acc.n + 1, val |-> acc.val * 10 + DigitValue(Head(s))])
    ELSE acc

parseInt(text) ==
    LET s    == SkipSpaces(text)
        neg  == s # <<>> /\ Head(s) = "-"
        body == IF s # <<>> /\ Head(s) \in {"-", "+"} THEN Tail(s) ELSE s
        run  == DigitRun(body, [n |-> 0, val |-> 0])
    IN  IF run.n = 0 THEN [nan |-> TRUE, val |-> 0]
        ELSE [nan |-> FALSE, val |-> IF neg THEN 0 - run.val ELSE run.val]

\* parseInt(req.body.versionCount) || 1
versionCount(text) ==
    LET r == parseInt(text) IN IF r.nan \/ r.val = 0 THEN 1 ELSE r.val

\* versionCount < 1 || versionCount > 5
InvalidCount(n) == n < MinVersions \/ n > PresetCount

\* slice(1, versionCount + 1) in place of slice(0, versionCount)
versionKeys_Shifted(n) ==
    SubSeq(VERSION_PRESETS, 2, Min(n + 1, Len(VERSION_PRESETS)))

\* slice(-versionCount) in place of slice(0, versionCount): the last keys
versionKeys_Last(n) ==
    LET len == Len(VERSION_PRESETS)
    IN  SubSeq(VERSION_PRESETS, len - Min(n, len) + 1, len)

\* Object.keys(VERSION_PRESETS).slice(0, versionCount)
versionKeys(n) ==
    LET len == Len(VERSION_PRESETS)
        end == IF n < 0 THEN (IF len + n < 0 THEN 0 ELSE len + n) ELSE Min(n, len)
    IN  SubSeq(VERSION_PRESETS, 1, end)

\* a file name made of the version key alone
outputFilename_KeyOnly(jobId, versionKey) == <<0, versionKey>>

\* `${jobId}_${versionKey}.mp4`: the job id, then the version key, which has
\* no underscore
outputFilename(jobId, versionKey) == <<jobId, versionKey>>

\* job.versions[key].size while it is undefined
NoSize == -1

\* stats.size of a finished output file
StatSize == 1

\* versionsToProcess[key] = { status: 'pending', progress: 0 }
PendingVersion ==
    [status |-> "pending", progress |-> 0, filename |-> <<>>, size |-> NoSize, error |-> ""]

NewJob(keys, n) ==
    [status |-> "processing", versionCount |-> n,
     versions |-> [k \in Range(keys) |-> PendingVersion],
     completedTime |-> NoTime, error |-> ""]

\* Math.min(99, Math.floor(progress.percent || 0))
percent(p) ==
    LET v == IF p.def /\ p.tenths # 0 THEN p.tenths ELSE 0
    IN  Min(ProgressCap, v \div 10)

\* Math.round in place of Math.floor
overallProgress_Round(job) ==
    LET prog == [k \in DOMAIN job.versions |-> job.versions[k].progress]
        n    == Cardinality(DOMAIN prog)
    IN  (2 * SumOver(prog, DOMAIN prog) + n) \div (2 * n)

\* Math.floor(sum of progress / number of versions)
overallProgress(job) ==
    LET prog == [k \in DOMAIN job.versions |-> job.versions[k].progress]
    IN  SumOver(prog, DOMAIN prog) \div Cardinality(DOMAIN prog)

\* a combinator that waits for every worker and never reports a rejection
PromiseAll_FulfilOnly(ws) ==
    IF \A k \in DOMAIN ws : ws[k] = "resolved" THEN "fulfilled" ELSE "pending"

\* Promise.any in place of Promise.all: fulfilled by the first resolved worker
PromiseAll_Any(ws) ==
    IF \E k \in DOMAIN ws : ws[k] = "resolved" THEN "fulfilled"
    ELSE IF \A k \in DOMAIN ws : ws[k] = "rejected" THEN "rejected"
    ELSE "pending"

\* Promise.all over the workers' promises
PromiseAll(ws) ==
    IF \E k \in DOMAIN ws : ws[k] = "rejected" THEN "rejected"
    ELSE IF \A k \in DOMAIN ws : ws[k] = "resolved" THEN "fulfilled"
    ELSE "pending"

\* ------------------------------------------------------ transformation plan
\* VERSION_PRESETS[key], with speed, saturation, brightness, contrast, sharpen
\* and gaussianBlur in hundredths and true as 1; a field the literal leaves out
\* is absent
PresetValues ==
    [version1 |-> [speed |-> 100, saturation |-> 110, brightness |-> 2, contrast |-> 105,
                   audioPitch |-> 0, cropPercent |-> 0],
     version2 |-> [speed |-> 85, saturation |-> 125, brightness |-> 5, contrast |-> 110,
                   audioPitch |-> -2, cropPercent |-> 3, colorTemp |-> "warm"],
     version3 |-> [speed |-> 115, saturation |-> 90, brightness |-> -3, contrast |-> 115,
                   audioPitch |-> 2, cropPercent |-> 5, colorTemp |-> "cool", sharpen |-> 120],
     version4 |-> [speed |-> 90, saturation |-> 140, brightness |-> 8, contrast |-> 120,
                   audioPitch |-> -1, cropPercent |-> 7, vignette |-> 1],
     version5 |-> [speed |-> 105, saturation |-> 105, brightness |-> 1, contrast |-> 108,
                   audioPitch |-> 1, cropPercent |-> 2, gaussianBlur |-> 30]]

\* if (preset.field): the field is there and is not 0
Truthy(preset, field) == field \in DOMAIN preset /\ preset[field] # 0

\* videoStream.width and videoStream.height of the probed source
Geometries ==
    { [width |-> 640, height |-> 360], [width |-> 1000, height |-> 800],
      [width |-> 1280, height |-> 720], [width |-> 1920, height |-> 1080],
      [width |-> 2000, height |-> 1100], [width |-> 3840, height |-> 2160] }

\* the source the pipeline specification probes
ProbedGeometries == { [width |-> 1000, height |-> 800] }

\* ---- IEEE 754 double arithmetic on the values of the crop calculation.
\* A double is m * 2^e with m a numeral of at most MantissaBits bits, most
\* significant bit first.
MantissaBits == 53
ChunkBits == 8
SmallBits == 24

Zeros(n) == [i \in 1..n |-> 0]

StripZeros(b) ==
    IF \A i \in 1..Len(b) : b[i] = 0 THEN <<>>
    ELSE SubSeq(b, CHOOSE i \in 1..Len(b) : b[i] = 1 /\ \A h \in 1..(i - 1) : b[h] = 0, Len(b))

\* the n-bit numeral of v < 2^n
ToBits(v, n) == [i \in 1..n |-> (v \div 2^(n - i)) % 2]

NatBits(v) == StripZeros(ToBits(v, SmallBits))

\* the value of a numeral of at most SmallBits bits
RECURSIVE BitsValue(_)
BitsValue(b) == IF b = <<>> THEN 0 ELSE 2 * BitsValue(SubSeq(b, 1, Len(b) - 1)) + b[Len(b)]

\* b + 1
Increment(b) ==
    IF \A i \in 1..Len(b) : b[i] = 1 THEN <<1>> \o Zeros(Len(b))
    ELSE LET z == CHOOSE i \in 1..Len(b) : b[i] = 0 /\ \A h \in (i + 1)..Len(b) : b[h] = 1
         IN  [i \in 1..Len(b) |-> IF i < z THEN b[i] ELSE IF i = z THEN 1 ELSE 0]

\* b * w + carry for a natural w < 2^15, ChunkBits bits at a time
RECURSIVE TimesSmall(_, _, _)
TimesSmall(b, w, carry) ==
    IF b = <<>> THEN NatBits(carry)
    ELSE LET n == Min(ChunkBits, Len(b))
             t == BitsValue(SubSeq(b, Len(b) - n + 1, Len(b))) * w + carry
         IN  TimesSmall(SubSeq(b, 1, Len(b) - n), w, t \div 2^n) \o ToBits(t % 2^n, n)

\* 2^n - b, for 0 < b < 2^n
PowerMinus(b, n) ==
    LET padded == Zeros(n - Len(b)) \o b
        sum    == Increment([i \in 1..n |-> 1 - padded[i]])
    IN  SubSeq(sum, Len(sum) - n + 1, Len(sum))

\* the first chunks * ChunkBits binary digits of rem/d after the point, then
\* one more digit that says whether a remainder is left
RECURSIVE FractionBits(_, _, _)
FractionBits(rem, d, chunks) ==
    IF chunks = 0 THEN <<IF rem = 0 THEN 0 ELSE 1>>
    ELSE ToBits((rem * 2^ChunkBits) \div d, ChunkBits)
             \o FractionBits((rem * 2^ChunkBits) % d, d, chunks - 1)

\* the number bits * 2^e rounded to the nearest double, ties to even
RoundToDouble(bits, e) ==
    LET b == StripZeros(bits) IN
    IF Len(b) <= MantissaBits THEN [m |-> b, e |-> e]
    ELSE LET keep   == SubSeq(b, 1, MantissaBits)
             guard  == b[MantissaBits + 1]
             sticky == \E i \in (MantissaBits + 2)..Len(b) : b[i] = 1
             up     == guard = 1 /\ (sticky \/ keep[MantissaBits] = 1)
         IN  [m |-> IF up THEN Increment(keep) ELSE keep, e |-> e + Len(b) - MantissaBits]

\* n / d for naturals 0 < n < d < 2^15
Divide(n, d) ==
    LET chunks == (MantissaBits + SmallBits) \div ChunkBits
    IN  RoundToDouble(FractionBits(n, d, chunks), 0 - (chunks * ChunkBits + 1))

\* 1 - x for a double 0 < x < 1
OneMinus(x) == RoundToDouble(PowerMinus(x.m, 0 - x.e), x.e)

\* w * x for a natural w < 2^15
Times(w, x) == RoundToDouble(TimesSmall(x.m, w, 0), x.e)

\* Math.floor of a double below 2^SmallBits
Floor(x) ==
    IF x.e >= 0 THEN BitsValue(x.m \o Zeros(x.e))
    ELSE IF Len(x.m) + x.e <= 0 THEN 0
    ELSE BitsValue(SubSeq(x.m, 1, Len(x.m) + x.e))

\* Math.floor(dimension * (1 - cropPercent / 100)), 0 < cropPercent < 100
keptSize(dimension, cropPercent) ==
    Floor(Times(dimension, OneMinus(Divide(cropPercent, 100))))

\* the values of keptSize for the probed dimensions and the catalog's crop
\* percentages, computed once
keptSizes ==
    LET dimensions == UNION { {g.width, g.height} : g \in Geometries \cup ProbedGeometries }
        percents   == { PresetValues[k].cropPercent : k \in DOMAIN PresetValues } \ {0}
    IN  { <<dp[1], dp[2], keptSize(dp[1], dp[2])>> : dp \in dimensions \X percents }

\* cropW and cropH
cropSize(dimension, cropPercent) ==
    IF \E t \in keptSizes : t[1] = dimension /\ t[2] = cropPercent
    THEN (CHOOSE t \in keptSizes : t[1] = dimension /\ t[2] = cropPercent)[3]
    ELSE keptSize(dimension, cropPercent)

\* a crop box whose corner, not its middle, is put at the middle of the frame
cropFilter_FromMiddle(preset, g) ==
    IF preset.cropPercent > 0
    THEN LET cropW == cropSize(g.width, preset.cropPercent)
             cropH == cropSize(g.height, preset.cropPercent)
         IN  <<<<"crop", cropW, cropH, g.width \div 2, g.height \div 2>>,
               <<"scale", 1920, 1080>>>>
    ELSE <<<<"scale", 1920, 1080>>>>

\* cropFilter: 'crop=W:H:X:Y,scale=1920:1080', or 'scale=1920:1080' alone
cropFilter(preset, g) ==
    IF preset.cropPercent > 0
    THEN LET cropW == cropSize(g.width, preset.cropPercent)
             cropH == cropSize(g.height, preset.cropPercent)
             cropX == (g.width - cropW) \div 2
             cropY == (g.height - cropH) \div 2
         IN  <<<<"crop", cropW, cropH, cropX, cropY>>, <<"scale", 1920, 1080>>>>
    ELSE <<<<"scale", 1920, 1080>>>>

\* a chain that puts the vignette in front of the colour adjustment
buildVideoFilterChain_VignetteFirst(preset, crop) ==
    crop
    \o (IF Truthy(preset, "vignette") THEN <<<<"vignette">>>> ELSE <<>>)
    \o <<<<"eq", preset.saturation, preset.brightness, preset.contrast>>>>
    \o (IF "colorTemp" \in DOMAIN preset /\ preset.colorTemp = "warm"
        THEN <<<<"colortemperature", 6500>>>>
        ELSE IF "colorTemp" \in DOMAIN preset /\ preset.colorTemp = "cool"
        THEN <<<<"colortemperature", 8500>>>>
        ELSE <<>>)
    \o (IF Truthy(preset, "sharpen") THEN <<<<"unsharp", preset.sharpen>>>> ELSE <<>>)
    \o (IF Truthy(preset, "gaussianBlur") THEN <<<<"gblur", preset.gaussianBlur>>>> ELSE <<>>)

\* buildVideoFilterChain: the filters that join(',') puts into one chain
buildVideoFilterChain(preset, crop) ==
    crop
    \o <<<<"eq", preset.saturation, preset.brightness, preset.contrast>>>>
    \o (IF "colorTemp" \in DOMAIN preset /\ preset.colorTemp = "warm"
        THEN <<<<"colortemperature", 6500>>>>
        ELSE IF "colorTemp" \in DOMAIN preset /\ preset.colorTemp = "cool"
        THEN <<<<"colortemperature", 8500>>>>
        ELSE <<>>)
    \o (IF Truthy(preset, "sharpen") THEN <<<<"unsharp", preset.sharpen>>>> ELSE <<>>)
    \o (IF Truthy(preset, "gaussianBlur") THEN <<<<"gblur", preset.gaussianBlur>>>> ELSE <<>>)
    \o (IF Truthy(preset, "vignette") THEN <<<<"vignette">>>> ELSE <<>>)

\* a chain that normalises the loudness before it shifts the pitch
buildAudioFilterChain_LoudnormFirst(preset) ==
    <<<<"loudnorm">>>>
    \o (IF preset.audioPitch # 0
        THEN <<<<"asetrate", preset.audioPitch>>, <<"aresample", 48000>>>>
        ELSE <<>>)

\* buildAudioFilterChain
buildAudioFilterChain(preset) ==
    (IF preset.audioPitch # 0
     THEN <<<<"asetrate", preset.audioPitch>>, <<"aresample", 48000>>>>
     ELSE <<>>)
    \o <<<<"loudnorm">>>>

\* (1 / preset.speed).toFixed(2), in hundredths
setpts(speed) == (20000 + speed) \div (2 * speed)

\* the speed options: each string is split at its blank into a flag and a value
speedOptions(preset) ==
    IF preset.speed # 100
    THEN << <<"-filter:v", <<<<"setpts", setpts(preset.speed)>>>> >>,
            <<"-filter:a", <<<<"atempo", preset.speed>>>> >> >>
    ELSE <<>>

\* the filter options of the command line in the order fluent-ffmpeg emits
\* them: the audio filters, the video filters, then the output options
filterOptions(videoFilters, audioFilters, preset) ==
    << <<"-filter:a", audioFilters>>, <<"-filter:v", videoFilters>> >>
        \o speedOptions(preset)

\* the filter chain ffmpeg runs on a stream: of several -filter options given
\* for one stream it uses the last
AppliedFilter(options, flag) ==
    LET at == { i \in 1..Len(options) : options[i][1] = flag }
    IN  options[CHOOSE i \in at : \A h \in at : h <= i][2]

NoCommand == [job |-> 0, key |-> "", width |-> 0, height |-> 0, cropPercent |-> 0,
              videoFilters |-> <<>>, audioFilters |-> <<>>, options |-> <<>>,
              output |-> <<>>]

\* a command whose filters depend on the job that asked for it
Command_PerJob(j, k, g) ==
    LET preset == PresetValues[k]
        videoFilters == buildVideoFilterChain(preset, cropFilter(preset, [g EXCEPT !.width = @ + j - 1]))
        audioFilters == buildAudioFilterChain(preset)
    IN  [job |-> j, key |-> k, width |-> g.width, height |-> g.height,
         cropPercent |-> preset.cropPercent,
         videoFilters |-> videoFilters, audioFilters |-> audioFilters,
         options |-> filterOptions(videoFilters, audioFilters, preset),
         output |-> outputFilename(j, k)]

\* the command the ffprobe callback builds and runs for a source of geometry g
Command(j, k, g) ==
    LET preset == PresetValues[k]
        videoFilters == buildVideoFilterChain(preset, cropFilter(preset, g))
        audioFilters == buildAudioFilterChain(preset)
    IN  [job |-> j, key |-> k, width |-> g.width, height |-> g.height,
         cropPercent |-> preset.cropPercent,
         videoFilters |-> videoFilters, audioFilters |-> audioFilters,
         options |-> filterOptions(videoFilters, audioFilters, preset),
         output |-> outputFilename(j, k)]

Init ==
    /\ jobs = << >>
    /\ workers = << >>
    /\ coord = << >>
    /\ timers = {}
    /\ uploads = {}
    /\ outputs = {}
    /\ nextId = 0
    /\ now = 0
    /\ pc = Idle
    /\ lastResp = NoResp
    /\ spawned = NoCommand


\* ------------------------------------------------------------- submission
Launched == SumOver([j \in DOMAIN workers |-> Cardinality(DOMAIN workers[j])], DOMAIN workers)

Reply(op, code, error, job) ==
    [NoResp EXCEPT !.op = op, !.code = code, !.error = error, !.job = job]

\* if (!req.file) return res.status(400)   -- either submission route
SubmitNoFile(route) ==
    /\ pc.state = "idle"
    /\ lastResp' = Reply(route, 400, "No video file uploaded", 0)
    /\ UNCHANGED <<jobs, workers, coord, timers, uploads, outputs, nextId, now, pc>>
    /\ spawned' = NoCommand

\* jobs.set(jobId, ...); res.json(...)  -- up to the call of processMultipleVersions
Register(route, id, n) ==
    LET keys == versionKeys(n) IN
    /\ jobs' = (id :> NewJob(keys, n)) @@ jobs
    /\ lastResp' = [Reply(route, 200, "", id) EXCEPT !.versionCount = n]
    /\ pc' = [state |-> "registered", job |-> id, keys |-> keys]

\* POST /api/convert with a file
SubmitSingle ==
    /\ pc.state = "idle"
    /\ nextId < MaxUploads
    /\ nextId' = nextId + 1
    /\ uploads' = uploads \cup {nextId + 1}
    /\ Register("convert", nextId + 1, 1)
    /\ UNCHANGED <<workers, coord, timers, outputs, now>>
    /\ spawned' = NoCommand

\* POST /api/convert-multi with a file and the form field versionCount = text
SubmitMulti(text) ==
    /\ pc.state = "idle"
    /\ nextId < MaxUploads
    /\ nextId' = nextId + 1
    /\ uploads' = uploads \cup {nextId + 1}
    /\ LET n == versionCount(text) IN
         IF InvalidCount(n)
         THEN /\ lastResp' = Reply("convert-multi", 400,
                                   "Invalid version count. Must be between 1 and 5.", 0)
              /\ UNCHANGED <<jobs, pc>>
         ELSE Register("convert-multi", nextId + 1, n)
    /\ UNCHANGED <<workers, coord, timers, outputs, now>>
    /\ spawned' = NoCommand

\* a coordinator that starts the worker of the first key only
Launch_FirstOnly ==
    /\ pc.state = "registered"
    /\ Launched + Len(pc.keys) <= MaxVersions
    /\ LET j == pc.job  ks == {Head(pc.keys)} IN
         /\ jobs' = [jobs EXCEPT ![j].versions =
                        [k \in DOMAIN @ |-> IF k \in ks THEN [@[k] EXCEPT !.status = "processing"]
                                            ELSE @[k]]]
         /\ workers' = (j :> [k \in ks |-> "probing"]) @@ workers
         /\ coord' = (j :> "awaiting") @@ coord
    /\ pc' = Idle
    /\ UNCHANGED <<timers, uploads, outputs, nextId, now>>
    /\ lastResp' = NoResp
    /\ spawned' = NoCommand

\* processMultipleVersions up to its await: every processVersionVariation
\* runs up to the ffprobe call (job.versions[versionKey].status = 'processing')
Launch ==
    /\ pc.state = "registered"
    /\ Launched + Len(pc.keys) <= MaxVersions
    /\ LET j == pc.job  ks == Range(pc.keys) IN
         /\ jobs' = [jobs EXCEPT ![j].versions =
                        [k \in DOMAIN @ |-> IF k \in ks THEN [@[k] EXCEPT !.status = "processing"]
                                            ELSE @[k]]]
         /\ workers' = (j :> [k \in ks |-> "probing"]) @@ workers
         /\ coord' = (j :> "awaiting") @@ coord
    /\ pc' = Idle
    /\ UNCHANGED <<timers, uploads, outputs, nextId, now>>
    /\ lastResp' = NoResp
    /\ spawned' = NoCommand

\* ------------------------------------------------------------ coordinator
\* processMultipleVersions whose catch block leaves job.status alone
processMultipleVersions_NoCatch(job, outcome, msg) ==
    IF outcome = "fulfilled"
    THEN [job EXCEPT !.status = "completed", !.completedTime = now]
    ELSE job

\* the rest of processMultipleVersions, run when the awaited Promise.all
\* settles: try-branch on fulfilment, catch-branch on rejection with msg
processMultipleVersions(job, outcome, msg) ==
    IF outcome = "fulfilled"
    THEN [job EXCEPT !.status = "completed", !.completedTime = now]
    ELSE IF outcome = "rejected"
    THEN [job EXCEPT !.status = "failed", !.error = msg]
    ELSE job

\* a coordinator that runs its try and catch branches again at every later
\* worker event
Settle_Again(j, js, ws, msg) ==
    LET outcome == PromiseAll(ws[j]) IN
    /\ workers' = ws
    /\ IF outcome # "pending"
       THEN /\ jobs' = [js EXCEPT ![j] = processMultipleVersions(@, outcome, msg)]
            /\ coord' = [coord EXCEPT ![j] = "settled"]
            /\ timers' = timers \cup {j}
       ELSE /\ jobs' = js
            /\ UNCHANGED <<coord, timers>>

\* a worker event of job j left the registry as js and the promises as ws
Settle(j, js, ws, msg) ==
    LET outcome == PromiseAll(ws[j]) IN
    /\ workers' = ws
    /\ IF coord[j] = "awaiting" /\ outcome # "pending"
       THEN /\ jobs' = [js EXCEPT ![j] = processMultipleVersions(@, outcome, msg)]
            /\ coord' = [coord EXCEPT ![j] = "settled"]
            /\ timers' = timers \cup {j}
       ELSE /\ jobs' = js
            /\ UNCHANGED <<coord, timers>>

\* ----------------------------------------------------------------- worker
\* a worker whose events are dropped once its job has left 'processing'
Working_Cancelled(j, k, phase) ==
    /\ pc.state = "idle"
    /\ j \in DOMAIN workers
    /\ j \in DOMAIN jobs
    /\ k \in DOMAIN workers[j]
    /\ workers[j][k] = phase
    /\ jobs[j].status = "processing"

\* worker k of job j is waiting for the event that ends the given phase
Working(j, k, phase) ==
    /\ pc.state = "idle"
    /\ j \in DOMAIN workers
    /\ j \in DOMAIN jobs
    /\ k \in DOMAIN workers[j]
    /\ workers[j][k] = phase

\* ffprobe answered with a video stream of geometry g: the command is built
\* and run, and ffmpeg opens its output file
ProbeOk(j, k, g) ==
    /\ Working(j, k, "probing")
    /\ workers' = [workers EXCEPT ![j][k] = "encoding"]
    /\ spawned' = Command(j, k, g)
    /\ outputs' = outputs \cup {spawned'.output}
    /\ UNCHANGED <<jobs, coord, timers, uploads, nextId, now, pc>>
    /\ lastResp' = NoResp

\* a failed probe that still lets ffmpeg open the output file
ProbeFail_OpensOutput(j, k, err) ==
    /\ Working(j, k, "probing")
    /\ Settle(j, [jobs EXCEPT ![j].versions[k].status = "failed",
                              ![j].versions[k].error = err],
              [workers EXCEPT ![j][k] = "rejected"], err)
    /\ outputs' = outputs \cup {<<j, k>>}
    /\ UNCHANGED <<uploads, nextId, now, pc>>
    /\ lastResp' = NoResp
    /\ spawned' = NoCommand

\* ffprobe answered with an error, or with no video stream
ProbeFail(j, k, err) ==
    /\ Working(j, k, "probing")
    /\ Settle(j, [jobs EXCEPT ![j].versions[k].status = "failed",
                              ![j].versions[k].error = err],
              [workers EXCEPT ![j][k] = "rejected"], err)
    /\ UNCHANGED <<uploads, outputs, nextId, now, pc>>
    /\ lastResp' = NoResp
    /\ spawned' = NoCommand

\* a progress handler that writes the report into every version of the job
Progress_AllVersions(j, k, p) ==
    /\ Working(j, k, "encoding")
    /\ jobs' = [jobs EXCEPT ![j].versions =
                   [v \in DOMAIN @ |-> [@[v] EXCEPT !.progress = percent(p)]]]
    /\ UNCHANGED <<workers, coord, timers, uploads, outputs, nextId, now, pc>>
    /\ lastResp' = NoResp
    /\ spawned' = NoCommand

\* .on('progress')
Progress(j, k, p) ==
    /\ Working(j, k, "encoding")
    /\ jobs' = [jobs EXCEPT ![j].versions[k].progress = percent(p)]
    /\ UNCHANGED <<workers, coord, timers, uploads, outputs, nextId, now, pc>>
    /\ lastResp' = NoResp
    /\ spawned' = NoCommand

\* .on('end')
End(j, k) ==
    /\ Working(j, k, "encoding")
    /\ Settle(j, [jobs EXCEPT ![j].versions[k].status = "completed",
                              ![j].versions[k].progress = ProgressDone,
                              ![j].versions[k].filename = outputFilename(j, k),
                              ![j].versions[k].size = StatSize],
              [workers EXCEPT ![j][k] = "resolved"], "")
    /\ UNCHANGED <<uploads, outputs, nextId, now, pc>>
    /\ lastResp' = NoResp
    /\ spawned' = NoCommand

\* an error event that is also delivered after the end event
Error_AfterEnd(j, k, err) ==
    /\ Working(j, k, "encoding") \/ Working(j, k, "resolved")
    /\ Settle(j, [jobs EXCEPT ![j].versions[k].status = "failed",
                              ![j].versions[k].error = err],
              [workers EXCEPT ![j][k] = "rejected"], err)
    /\ UNCHANGED <<uploads, outputs, nextId, now, pc>>
    /\ lastResp' = NoResp
    /\ spawned' = NoCommand

\* an error handler that records a fixed text in place of err.message
Error_FixedText(j, k, err) ==
    /\ Working(j, k, "encoding")
    /\ Settle(j, [jobs EXCEPT ![j].versions[k].status = "failed",
                              ![j].versions[k].error = "Processing failed"],
              [workers EXCEPT ![j][k] = "rejected"], err)
    /\ UNCHANGED <<uploads, outputs, nextId, now, pc>>
    /\ lastResp' = NoResp
    /\ spawned' = NoCommand

\* .on('error')
Error(j, k, err) ==
    /\ Working(j, k, "encoding")
    /\ Settle(j, [jobs EXCEPT ![j].versions[k].status = "failed",
                              ![j].versions[k].error = err],
              [workers EXCEPT ![j][k] = "rejected"], err)
    /\ UNCHANGED <<uploads, outputs, nextId, now, pc>>
    /\ lastResp' = NoResp
    /\ spawned' = NoCommand

\* the setTimeout callback of the finally block: unlink the uploaded source
DeleteSource(j) ==
    /\ pc.state = "idle"
    /\ j \in timers
    /\ timers' = timers \ {j}
    /\ uploads' = uploads \ {j}
    /\ UNCHANGED <<jobs, workers, coord, outputs, nextId, now, pc>>
    /\ lastResp' = NoResp
    /\ spawned' = NoCommand


\* ---------------------------------------------------------------- readers
JobIds == 1..MaxUploads

\* property names every object literal inherits from Object.prototype
InheritedKeys == {"constructor"}

\* req.params.versionKey: the keys a launched job can hold, one no job holds,
\* and one that names an inherited property
VersionParams ==
    { VERSION_PRESETS[i] : i \in 1..Min(MaxVersions, Len(VERSION_PRESETS)) }
        \cup {"version6"} \cup InheritedKeys

\* job.versions[versionKey] is truthy: an own entry, or an inherited property
HasVersion(job, k) == k \in DOMAIN job.versions \/ k \in InheritedKeys

\* job.versions[versionKey].status, undefined on an inherited property
StatusOf(job, k) ==
    IF k \in DOMAIN job.versions THEN job.versions[k].status ELSE "undefined"

\* a status query that drops a completed job from the registry once reported
GetStatus_Consumes(j) ==
    /\ pc.state = "idle"
    /\ lastResp' =
         IF j \notin DOMAIN jobs THEN Reply("status", 404, "Job not found", 0)
         ELSE [Reply("status", 200, "", j) EXCEPT
                  !.status = jobs[j].status,
                  !.versionCount = jobs[j].versionCount,
                  !.overallProgress = overallProgress(jobs[j]),
                  !.versions = jobs[j].versions]
    /\ jobs' = [i \in { h \in DOMAIN jobs : h # j \/ jobs[h].status # "completed" } |-> jobs[i]]
    /\ UNCHANGED <<workers, coord, timers, uploads, outputs, nextId, now, pc>>
    /\ spawned' = NoCommand

\* GET /api/job/:jobId; the body of the 200 answer has no error field
GetStatus(j) ==
    /\ pc.state = "idle"
    /\ lastResp' =
         IF j \notin DOMAIN jobs THEN Reply("status", 404, "Job not found", 0)
         ELSE [Reply("status", 200, "", j) EXCEPT
                  !.status = jobs[j].status,
                  !.versionCount = jobs[j].versionCount,
                  !.overallProgress = overallProgress(jobs[j]),
                  !.versions = jobs[j].versions]
    /\ UNCHANGED <<jobs, workers, coord, timers, uploads, outputs, nextId, now, pc>>
    /\ spawned' = NoCommand

\* GET /api/download/:jobId/:versionKey
Download(j, k) ==
    /\ pc.state = "idle"
    /\ lastResp' =
         IF j \notin DOMAIN jobs \/ ~HasVersion(jobs[j], k)
         THEN Reply("download", 404, "Version not found", 0)
         ELSE IF StatusOf(jobs[j], k) # "completed"
         THEN Reply("download", 400, "Version not ready", 0)
         ELSE IF jobs[j].versions[k].filename \notin outputs
         THEN Reply("download", 404, "File not found", 0)
         ELSE Reply("download", 200, "", j)
    /\ UNCHANGED <<jobs, workers, coord, timers, uploads, outputs, nextId, now, pc>>
    /\ spawned' = NoCommand

\* Object.keys(job.versions)[0]
FirstKey(job) ==
    VERSION_PRESETS[CHOOSE i \in 1..Len(VERSION_PRESETS) :
                        /\ VERSION_PRESETS[i] \in DOMAIN job.versions
                        /\ \A h \in 1..(i - 1) : VERSION_PRESETS[h] \notin DOMAIN job.versions]

\* an archive that names every entry after the first preset
ArchiveEntries_FirstName(job) ==
    { <<k, PresetNames[VERSION_PRESETS[1]]>> :
          k \in { v \in DOMAIN job.versions :
                     /\ job.versions[v].status = "completed"
                     /\ job.versions[v].filename \in outputs } }

\* the archive.file calls: <<versionKey, preset name>> stands for the entry
\* `${versionKey}_${VERSION_PRESETS[versionKey].name}.mp4`
ArchiveEntries(job) ==
    { <<k, PresetNames[k]>> :
          k \in { v \in DOMAIN job.versions :
                     /\ job.versions[v].status = "completed"
                     /\ job.versions[v].filename \in outputs } }

\* GET /api/download-all/:jobId; a redirect is the answer 302 whose location
\* is the single download of the named version of the same job
DownloadAll(j) ==
    /\ pc.state = "idle"
    /\ lastResp' =
         IF j \notin DOMAIN jobs THEN Reply("download-all", 404, "Job not found", 0)
         ELSE IF jobs[j].status # "completed"
         THEN Reply("download-all", 400, "Not all versions ready", 0)
         ELSE IF jobs[j].versionCount = 1
         THEN [Reply("download-all", 302, "", j) EXCEPT !.location = FirstKey(jobs[j])]
         ELSE [Reply("download-all", 200, "", j) EXCEPT !.entries = ArchiveEntries(jobs[j])]
    /\ UNCHANGED <<jobs, workers, coord, timers, uploads, outputs, nextId, now, pc>>
    /\ spawned' = NoCommand

\* ------------------------------------------------------ clock and retention
Tick ==
    /\ pc.state = "idle"
    /\ \E j \in DOMAIN jobs : jobs[j].completedTime # NoTime
    /\ now < MaxTime
    /\ now' = now + 1
    /\ UNCHANGED <<jobs, workers, coord, timers, uploads, outputs, nextId, pc>>
    /\ lastResp' = NoResp
    /\ spawned' = NoCommand

\* an expiry test on the job status in place of the completion time
Expired_Terminal(job) == job.status \in {"completed", "failed"}

\* job.completedTime && (now - job.completedTime > CLEANUP_AGE)
Expired(job) == job.completedTime # NoTime /\ now - job.completedTime > CLEANUP_AGE

\* a sweep that forgets the expired jobs and leaves their files
Sweep_KeepsFiles ==
    /\ pc.state = "idle"
    /\ LET gone == { j \in DOMAIN jobs : Expired(jobs[j]) } IN
         /\ gone # {}
         /\ jobs' = [j \in DOMAIN jobs \ gone |-> jobs[j]]
    /\ UNCHANGED <<workers, coord, timers, uploads, outputs, nextId, now, pc>>
    /\ lastResp' = NoResp
    /\ spawned' = NoCommand

\* the setInterval callback: delete the outputs of expired jobs, then the jobs
Sweep ==
    /\ pc.state = "idle"
    /\ LET gone == { j \in DOMAIN jobs : Expired(jobs[j]) } IN
         /\ gone # {}
         /\ outputs' = outputs \ UNION { { jobs[j].versions[k].filename :
                                              k \in { v \in DOMAIN jobs[j].versions :
                                                        jobs[j].versions[v].filename # <<>> } } :
                                            j \in gone }
         /\ jobs' = [j \in DOMAIN jobs \ gone |-> jobs[j]]
    /\ UNCHANGED <<workers, coord, timers, uploads, nextId, now, pc>>
    /\ lastResp' = NoResp
    /\ spawned' = NoCommand

Next ==
    \/ \E route \in {"convert", "convert-multi"} : SubmitNoFile(route)
    \/ SubmitSingle
    \/ \E text \in VersionCountFields : SubmitMulti(text)
    \/ Launch
    \/ \E j \in JobIds, k \in Range(VERSION_PRESETS), g \in ProbedGeometries : ProbeOk(j, k, g)
    \/ \E j \in JobIds, k \in Range(VERSION_PRESETS), err \in ProbeErrors : ProbeFail(j, k, err)
    \/ \E j \in JobIds, k \in Range(VERSION_PRESETS), p \in PercentReports : Progress(j, k, p)
    \/ \E j \in JobIds, k \in Range(VERSION_PRESETS) : End(j, k)
    \/ \E j \in JobIds, k \in Range(VERSION_PRESETS), err \in EncodeErrors : Error(j, k, err)
    \/ \E j \in JobIds : DeleteSource(j)
    \/ \E j \in JobIds : GetStatus(j)
    \/ \E j \in JobIds, k \in VersionParams : Download(j, k)
    \/ \E j \in JobIds : DownloadAll(j)
    \/ Tick
    \/ Sweep

Spec == Init /\ [][Next]_vars

\* ------------------------------------------------------- stray-file sweep
\* The cleanup interval of src/unnamed/part_000 works on processed/videos, the
\* directory the workers above write to, and removes files by age alone.
MAX_AGE == 24    \* 24 * 60 * 60 * 1000 ms, in hours

\* The interval callback, fired after more than MAX_AGE hours in which nothing
\* else happened: no encoder was writing, no source timer was pending and no
\* job was waiting for the retention sweep.  No file was written after `now`,
\* so stats.mtimeMs of every file is at most `now`.
StraySweep ==
    /\ pc.state = "idle"
    /\ timers = {}
    /\ \A j \in DOMAIN jobs : jobs[j].completedTime = NoTime
    /\ \A j \in DOMAIN workers : \A k \in DOMAIN workers[j] :
           workers[j][k] \in {"resolved", "rejected"}
    /\ outputs # {}
    /\ now <= MaxTime
    /\ now' = now + MAX_AGE + 1
    /\ LET mtimeMs == [f \in outputs |-> now]
       IN  outputs' = { f \in outputs : ~(now' - mtimeMs[f] > MAX_AGE) }
    /\ UNCHANGED <<jobs, workers, coord, timers, uploads, nextId, pc>>
    /\ lastResp' = NoResp
    /\ spawned' = NoCommand

NextWithStraySweep == Next \/ StraySweep

SpecWithStraySweep == Init /\ [][NextWithStraySweep]_vars

\* ------------------------------------------------------------ plan building
\* Two jobs of five versions each have been launched and every worker waits
\* for its ffprobe answer; the answers arrive in any order and report any of
\* the Geometries.
BuildJobs == {1, 2}

InitBuild ==
    /\ jobs = [j \in BuildJobs |->
                 [NewJob(versionKeys(PresetCount), PresetCount) EXCEPT
                     !.versions = [k \in DOMAIN @ |-> [@[k] EXCEPT !.status = "processing"]]]]
    /\ workers = [j \in BuildJobs |-> [k \in Range(VERSION_PRESETS) |-> "probing"]]
    /\ coord = [j \in BuildJobs |-> "awaiting"]
    /\ timers = {}
    /\ uploads = BuildJobs
    /\ outputs = {}
    /\ nextId = Cardinality(BuildJobs)
    /\ now = 0
    /\ pc = Idle
    /\ lastResp = NoResp
    /\ spawned = NoCommand

NextBuild ==
    \E j \in BuildJobs, k \in Range(VERSION_PRESETS), g \in Geometries : ProbeOk(j, k, g)

SpecBuild == InitBuild /\ [][NextBuild]_vars


\* ------------------------------------------------------- retention runs
\* Two uploads have been submitted and launched, a single conversion (job 1)
\* and a two-version job (job 2), and the three workers wait for their ffprobe
\* answers.  From there the probes and encoders report, the source timers
\* fire, the clock advances and the retention sweep runs.
RetentionJobs == {1, 2}

RetentionKeys(j) == IF j = 1 THEN versionKeys(1) ELSE versionKeys(2)

InitRetention ==
    /\ jobs = [j \in RetentionJobs |->
                 [NewJob(RetentionKeys(j), Len(RetentionKeys(j))) EXCEPT
                     !.versions = [k \in DOMAIN @ |-> [@[k] EXCEPT !.status = "processing"]]]]
    /\ workers = [j \in RetentionJobs |-> [k \in Range(RetentionKeys(j)) |-> "probing"]]
    /\ coord = [j \in RetentionJobs |-> "awaiting"]
    /\ timers = {}
    /\ uploads = RetentionJobs
    /\ outputs = {}
    /\ nextId = Cardinality(RetentionJobs)
    /\ now = 0
    /\ pc = Idle
    /\ lastResp = NoResp
    /\ spawned = NoCommand

NextRetention ==
    \/ \E j \in RetentionJobs, k \in Range(VERSION_PRESETS), g \in ProbedGeometries : ProbeOk(j, k, g)
    \/ \E j \in RetentionJobs, k \in Range(VERSION_PRESETS), err \in ProbeErrors : ProbeFail(j, k, err)
    \/ \E j \in RetentionJobs, k \in Range(VERSION_PRESETS), p \in PercentReports : Progress(j, k, p)
    \/ \E j \in RetentionJobs, k \in Range(VERSION_PRESETS) : End(j, k)
    \/ \E j \in RetentionJobs, k \in Range(VERSION_PRESETS), err \in EncodeErrors : Error(j, k, err)
    \/ \E j \in RetentionJobs : DeleteSource(j)
    \/ Tick
    \/ Sweep

SpecRetention == InitRetention /\ [][NextRetention]_vars

\* Every ffprobe and ffmpeg process that was started ends with an answer: the
\* probe with its callback, the encoder with 'end' or 'error'.
ProbeAnswers(j, k) ==
    \/ \E g \in ProbedGeometries : ProbeOk(j, k, g)
    \/ \E err \in ProbeErrors : ProbeFail(j, k, err)

EncoderAnswers(j, k) ==
    \/ End(j, k)
    \/ \E err \in EncodeErrors : Error(j, k, err)

Fairness ==
    \A j \in RetentionJobs : \A k \in Range(VERSION_PRESETS) :
        WF_vars(ProbeAnswers(j, k)) /\ WF_vars(EncoderAnswers(j, k))

SpecRetentionFair == SpecRetention /\ Fairness

\* ------------------------------------------------------- crop calculation
\* The crop calculation on its own: a source geometry and a crop percentage
\* are given, and the one step computes the crop filter for them.
CropWidths  == {1, 2, 3, 7, 100, 1000, 1920}
CropHeights == {1, 9, 800, 1080}
CropPercents == 1..99

InitCrop ==
    /\ jobs = << >>
    /\ workers = << >>
    /\ coord = << >>
    /\ timers = {}
    /\ uploads = {}
    /\ outputs = {}
    /\ nextId = 0
    /\ now = 0
    /\ pc = Idle
    /\ lastResp = NoResp
    /\ spawned \in { [NoCommand EXCEPT !.width = w, !.height = h, !.cropPercent = pct] :
                         w \in CropWidths, h \in CropHeights, pct \in CropPercents }

Crop ==
    /\ spawned.videoFilters = <<>>
    /\ spawned' = [spawned EXCEPT !.videoFilters =
                       cropFilter([cropPercent |-> spawned.cropPercent],
                                  [width |-> spawned.width, height |-> spawned.height])]
    /\ UNCHANGED <<jobs, workers, coord, timers, uploads, outputs, nextId, now, pc, lastResp>>

SpecCrop == InitCrop /\ [][Crop]_vars

\* ------------------------------------------------------ generic conversion
\* The single-output converter: POST /api/convert registers a job for the
\* uploaded file and starts processVideoGeneric, which awaits one encoder run
\* and then unlinks the upload.  Here jobs maps a job id to the record of that
\* converter's registry, workers[g] is the state of the promise the task
\* awaits, and coord[g] is the position of the task.
GenericJobs == {1, 2}

GenericErrors == {"ffmpeg error"}

\* `${jobId}_universal.mp4`
universalFilename(jobId) == <<jobId, "universal">>

NoResult == <<>>

\* Math.round(progress.percent || 0)
roundedPercent(p) ==
    LET v == IF p.def /\ p.tenths # 0 THEN p.tenths ELSE 0
    IN  (v + 5) \div 10

\* POST /api/convert with a file: the job is registered and the task runs up
\* to its await, which starts the encoder
Convert(g) ==
    /\ g = nextId + 1
    /\ nextId' = g
    /\ uploads' = uploads \cup {g}
    /\ jobs' = (g :> [status |-> "processing", progress |-> 0,
                      result |-> NoResult, error |-> ""]) @@ jobs
    /\ workers' = (g :> "pending") @@ workers
    /\ coord' = (g :> "awaiting") @@ coord
    /\ lastResp' = [NoResp EXCEPT !.op = "convert", !.code = 200, !.job = g,
                                  !.status = "processing"]
    /\ UNCHANGED <<timers, outputs, now, pc, spawned>>

\* POST /api/convert without a file: 400, nothing is registered
ConvertWithoutFile ==
    /\ lastResp' = [NoResp EXCEPT !.op = "convert", !.code = 400,
                                  !.error = "No video file provided"]
    /\ UNCHANGED <<jobs, workers, coord, timers, uploads, outputs, nextId, now, pc, spawned>>

GenericRunning(g) ==
    /\ g \in DOMAIN jobs
    /\ coord[g] = "awaiting"
    /\ jobs[g].status = "processing"

\* .on('progress')
GenericProgress(g, p) ==
    /\ GenericRunning(g)
    /\ jobs' = [jobs EXCEPT ![g].progress = roundedPercent(p)]
    /\ lastResp' = NoResp
    /\ UNCHANGED <<workers, coord, timers, uploads, outputs, nextId, now, pc, spawned>>

\* .on('end'): the job is marked completed; the handler settles nothing, so
\* the promise stays pending and the task stays at its await
GenericEnd(g) ==
    /\ GenericRunning(g)
    /\ jobs' = [jobs EXCEPT ![g].status = "completed", ![g].progress = ProgressDone,
                            ![g].result = universalFilename(g)]
    /\ outputs' = outputs \cup {universalFilename(g)}
    /\ lastResp' = NoResp
    /\ UNCHANGED <<workers, coord, timers, uploads, nextId, now, pc, spawned>>

\* .on('error'): the job is marked failed and the promise rejected; the catch
\* block writes the same fields again and the finally block starts the unlink
GenericError(g, err) ==
    /\ GenericRunning(g)
    /\ jobs' = [jobs EXCEPT ![g].status = "failed", ![g].error = err]
    /\ workers' = [workers EXCEPT ![g] = "rejected"]
    /\ coord' = [coord EXCEPT ![g] = "unlinking"]
    /\ lastResp' = NoResp
    /\ UNCHANGED <<timers, uploads, outputs, nextId, now, pc, spawned>>

\* finally: await fs.unlink(file.path), after which the task returns
GenericUnlink(g) ==
    /\ g \in DOMAIN coord
    /\ coord[g] = "unlinking"
    /\ uploads' = uploads \ {g}
    /\ coord' = [coord EXCEPT ![g] = "done"]
    /\ lastResp' = NoResp
    /\ UNCHANGED <<jobs, workers, timers, outputs, nextId, now, pc, spawned>>

InitGeneric ==
    /\ jobs = << >>
    /\ workers = << >>
    /\ coord = << >>
    /\ timers = {}
    /\ uploads = {}
    /\ outputs = {}
    /\ nextId = 0
    /\ now = 0
    /\ pc = Idle
    /\ lastResp = NoResp
    /\ spawned = NoCommand

NextGeneric ==
    \/ \E g \in GenericJobs : Convert(g)
    \/ ConvertWithoutFile
    \/ \E g \in GenericJobs, p \in PercentReports : GenericProgress(g, p)
    \/ \E g \in GenericJobs : GenericEnd(g)
    \/ \E g \in GenericJobs, err \in GenericErrors : GenericError(g, err)
    \/ \E g \in GenericJobs : GenericUnlink(g)

SpecGeneric == InitGeneric /\ [][NextGeneric]_vars

\* the encoder run of a started conversion ends with 'end' or with 'error'
GenericEncoderAnswers(g) ==
    GenericEnd(g) \/ \E err \in GenericErrors : GenericError(g, err)

\* every encoder run signals, and a started unlink completes
FairnessGeneric ==
    \A g \in GenericJobs :
        /\ WF_vars(GenericEncoderAnswers(g))
        /\ WF_vars(GenericUnlink(g))

SpecGenericFair == SpecGeneric /\ FairnessGeneric

\* ================================================================= claims
Keys == Range(VERSION_PRESETS)

Terminal(v) == v.status \in {"completed", "failed"}

Versions(j) == jobs[j].versions

ProgressSum(j) ==
    SumOver([k \in DOMAIN Versions(j) |-> Versions(j)[k].progress], DOMAIN Versions(j))

\* C1: a job has status completed or failed only in states where every one of
\* its versions is completed or failed.
C1_JobTerminalOnlyAfterAllVersions ==
    \A j \in DOMAIN jobs :
        jobs[j].status \in {"completed", "failed"} =>
            \A k \in DOMAIN Versions(j) : Terminal(Versions(j)[k])

\* C2: in every reachable state a job is completed if and only if each of its
\* versions is completed.
C2_CompletedIffAllCompleted ==
    \A j \in DOMAIN jobs :
        jobs[j].status = "completed" <=>
            \A k \in DOMAIN Versions(j) : Versions(j)[k].status = "completed"

C2_Witness ==
    \E j \in DOMAIN jobs :
        /\ jobs[j].status = "completed"
        /\ Cardinality(DOMAIN Versions(j)) = 2
        /\ \A k \in DOMAIN Versions(j) : Versions(j)[k].status = "completed"

\* C3: once all workers of a job are terminal the job is completed or failed,
\* and it is failed exactly when one of its versions is failed.
C3_AllTerminalDecidesJob ==
    \A j \in DOMAIN jobs :
        (\A k \in DOMAIN Versions(j) : Terminal(Versions(j)[k])) =>
            /\ jobs[j].status \in {"completed", "failed"}
            /\ jobs[j].status = "failed" <=>
                   \E k \in DOMAIN Versions(j) : Versions(j)[k].status = "failed"

C3_Witness ==
    \E j \in DOMAIN jobs :
        /\ \A k \in DOMAIN Versions(j) : Terminal(Versions(j)[k])
        /\ \E k \in DOMAIN Versions(j) : Versions(j)[k].status = "failed"
        /\ \E k \in DOMAIN Versions(j) : Versions(j)[k].status = "completed"
        /\ jobs[j].status = "failed"

\* C4: the uploaded source of a job is never gone from uploads/ while one of
\* the job's versions is still pending or processing.
C4_SourceKeptWhileWorking ==
    \A j \in DOMAIN jobs :
        j \notin uploads => \A k \in DOMAIN Versions(j) : Terminal(Versions(j)[k])

\* C5: after a version of a job has failed, each sibling still processing can
\* take its next step towards completed (the probe can succeed, the encode can
\* end), and the single download serves every completed version of a failed job.
C5_SiblingCanProceed ==
    \A j \in DOMAIN jobs : \A k \in DOMAIN Versions(j) :
        (/\ pc.state = "idle"
         /\ \E f \in DOMAIN Versions(j) : Versions(j)[f].status = "failed"
         /\ Versions(j)[k].status = "processing") =>
            \/ workers[j][k] = "probing" /\ ENABLED (\E g \in ProbedGeometries : ProbeOk(j, k, g))
            \/ workers[j][k] = "encoding" /\ ENABLED End(j, k)

C5_CompletedSiblingServed ==
    \A j \in JobIds : \A k \in VersionParams :
        (/\ j \in DOMAIN jobs
         /\ k \in DOMAIN Versions(j)
         /\ jobs[j].status = "failed"
         /\ Versions(j)[k].status = "completed"
         /\ Download(j, k)) => lastResp'.code = 200

C5_FailureDoesNotCancelSiblings ==
    [](C5_SiblingCanProceed) /\ [][C5_CompletedSiblingServed]_vars

C5_Witness ==
    /\ lastResp.op = "download"
    /\ lastResp.code = 200
    /\ lastResp.job \in DOMAIN jobs
    /\ jobs[lastResp.job].status = "failed"
    /\ \E k \in DOMAIN Versions(lastResp.job) :
           Versions(lastResp.job)[k].status = "completed"

\* C6: the progress of a version never decreases from one state to the next.
C6_ProgressNeverDecreases ==
    [][\A j \in DOMAIN jobs \cap DOMAIN jobs' : \A k \in DOMAIN Versions(j) :
           jobs'[j].versions[k].progress >= Versions(j)[k].progress]_vars

\* C7: a version that is not completed has progress in 0..99, a completed one
\* has progress 100.
C7_ProgressRange ==
    \A j \in DOMAIN jobs : \A k \in DOMAIN Versions(j) :
        IF Versions(j)[k].status = "completed"
        THEN Versions(j)[k].progress = ProgressDone
        ELSE Versions(j)[k].progress \in 0..ProgressCap

C9_Registered ==
    pc.state = "registered" =>
        /\ pc.job \in DOMAIN jobs
        /\ pc.job \notin DOMAIN workers
        /\ jobs[pc.job].status = "processing"
        /\ jobs[pc.job].versionCount \in MinVersions..PresetCount
        /\ DOMAIN Versions(pc.job) =
               { VERSION_PRESETS[i] : i \in 1..jobs[pc.job].versionCount }
        /\ Cardinality(DOMAIN Versions(pc.job)) = jobs[pc.job].versionCount
        /\ \A k \in DOMAIN Versions(pc.job) :
               Versions(pc.job)[k].status = "pending" /\ Versions(pc.job)[k].progress = 0

\* the count a well-formed decimal field asks for
IsNumeral(text) == text # <<>> /\ \A i \in 1..Len(text) : IsDigit(text[i])

C9_ValidCountRegisters ==
    \A text \in VersionCountFields :
        (/\ SubmitMulti(text)
         /\ IsNumeral(text)
         /\ parseInt(text).val \in MinVersions..PresetCount) =>
            /\ pc'.state = "registered"
            /\ DOMAIN jobs' = DOMAIN jobs \cup {pc'.job}
            /\ pc'.job \notin DOMAIN jobs
            /\ jobs'[pc'.job].versionCount = parseInt(text).val
            /\ \A j \in DOMAIN jobs : jobs'[j] = jobs[j]

C9_SingleRegisters ==
    SubmitSingle =>
        /\ pc'.state = "registered"
        /\ DOMAIN jobs' = DOMAIN jobs \cup {pc'.job}
        /\ pc'.job \notin DOMAIN jobs
        /\ jobs'[pc'.job].versionCount = 1

C9_SubmitRegistersPendingVersions ==
    [](C9_Registered) /\ [][C9_ValidCountRegisters /\ C9_SingleRegisters]_vars

C9_Witness ==
    /\ pc.state = "registered"
    /\ jobs[pc.job].versionCount = PresetCount
    /\ Cardinality(DOMAIN Versions(pc.job)) = PresetCount

\* C10: a submission asking for fewer than 1 or more than 5 versions is
\* answered with the invalid-count error and creates no job.
C10_OutOfRangeRejected ==
    [][\A text \in VersionCountFields :
          (/\ SubmitMulti(text)
           /\ parseInt(text).nan = FALSE
           /\ InvalidCount(parseInt(text).val)) =>
              /\ lastResp'.code = 400
              /\ jobs' = jobs]_vars

\* C11: a rejected submission (no file, or an invalid version count) leaves
\* the registry unchanged, launches no worker, and the file uploaded with the
\* rejected request is not in uploads/ afterwards.
C11_Rejected ==
    \/ \E route \in {"convert", "convert-multi"} : SubmitNoFile(route)
    \/ \E text \in VersionCountFields : SubmitMulti(text) /\ lastResp'.code = 400

C11_RejectedLeavesNoState ==
    [][C11_Rejected =>
          /\ jobs' = jobs
          /\ workers' = workers
          /\ pc' = pc
          /\ \A u \in uploads' \ uploads : u \in DOMAIN jobs']_vars

\* C12: the single download serves the file only for an existing job, an
\* existing version key and a completed version; an unknown job id or version
\* key is answered NotFound (404), a pending, processing or failed version
\* NotReady (400).
C12_DownloadStep(j, k) ==
    LET known == j \in DOMAIN jobs /\ k \in DOMAIN Versions(j) IN
    Download(j, k) =>
        /\ lastResp'.code = 200 =>
               /\ known
               /\ Versions(j)[k].status = "completed"
               /\ Versions(j)[k].filename \in outputs
        /\ ~known => lastResp'.code = 404
        /\ (known /\ Versions(j)[k].status # "completed") => lastResp'.code = 400

C12_SingleDownloadGuards ==
    [][\A j \in JobIds : \A k \in VersionParams : C12_DownloadStep(j, k)]_vars

\* C13: for a job with two or more versions, all of them completed or failed
\* and at least one completed, the bundle download answers with an archive
\* holding every completed output, not with NotReady.
C13_BundleOfTerminalJob ==
    [][\A j \in JobIds :
          (/\ DownloadAll(j)
           /\ j \in DOMAIN jobs
           /\ Cardinality(DOMAIN Versions(j)) >= 2
           /\ \A k \in DOMAIN Versions(j) : Terminal(Versions(j)[k])
           /\ \E k \in DOMAIN Versions(j) : Versions(j)[k].status = "completed") =>
              /\ lastResp'.code = 200
              /\ { e[1] : e \in lastResp'.entries } =
                     { k \in DOMAIN Versions(j) : Versions(j)[k].status = "completed" }]_vars

\* C14: for a completed job with N >= 2 versions the bundle download is an
\* archive of exactly N entries, one per version key, each named by the key and
\* its preset name; for a completed job with one version it is no archive but a
\* redirect to the single download of that version, which serves the file.
C14_BundleStep(j) ==
    (/\ DownloadAll(j)
     /\ j \in DOMAIN jobs
     /\ jobs[j].status = "completed") =>
        IF Cardinality(DOMAIN Versions(j)) >= 2
        THEN /\ lastResp'.code = 200
             /\ Cardinality(lastResp'.entries) = Cardinality(DOMAIN Versions(j))
             /\ lastResp'.entries = { <<k, PresetNames[k]>> : k \in DOMAIN Versions(j) }
        ELSE /\ lastResp'.code = 302
             /\ lastResp'.entries = {}
             /\ lastResp'.job = j
             /\ \E k \in DOMAIN Versions(j) :
                    /\ lastResp'.location = k
                    /\ ENABLED (Download(j, k) /\ lastResp'.code = 200)

C14_BundleHasOneEntryPerVersion ==
    [][\A j \in JobIds : C14_BundleStep(j)]_vars

C14_Witness ==
    /\ lastResp.op = "download-all"
    /\ lastResp.code = 200
    /\ lastResp.job \in DOMAIN jobs
    /\ Cardinality(lastResp.entries) >= 2
    /\ Cardinality(lastResp.entries) = Cardinality(DOMAIN Versions(lastResp.job))

\* C15: a sweep removes from the registry every job that has been completed
\* for longer than the retention threshold and leaves none of its output files
\* on disk; from then on the status query and both downloads answer NotFound
\* for that job.
C15_SweepStep ==
    Sweep =>
        \A j \in DOMAIN jobs :
            (jobs[j].status = "completed" /\ now - jobs[j].completedTime > CLEANUP_AGE) =>
                /\ j \notin DOMAIN jobs'
                /\ \A k \in DOMAIN Versions(j) :
                       /\ Versions(j)[k].filename \notin outputs'
                       /\ <<j, k>> \notin outputs'

\* a job that was launched and is no longer registered has been swept
C15_Swept(j) == j \in DOMAIN workers /\ j \notin DOMAIN jobs

C15_SweptIsNotFound ==
    \A j \in JobIds :
        C15_Swept(j) =>
            /\ GetStatus(j) => lastResp'.code = 404
            /\ DownloadAll(j) => lastResp'.code = 404
            /\ \A k \in VersionParams : Download(j, k) => lastResp'.code = 404

C16_CompletedVersionHasFile ==
    \A j \in DOMAIN jobs : \A k \in DOMAIN Versions(j) :
        Versions(j)[k].status = "completed" => Versions(j)[k].filename \in outputs

C17_Failed(j) == j \in DOMAIN jobs /\ jobs[j].status = "failed"

\* C17: a failed job stays registered with its job-level error set,
\* and every status query for it returns the job together with that job-level
\* error.
C17_StatusReturnsJobError ==
    [][\A j \in JobIds :
          C17_Failed(j) =>
              /\ j \in DOMAIN jobs' /\ jobs'[j].status = "failed"
              /\ jobs[j].error # "" /\ jobs'[j].error = jobs[j].error
              /\ GetStatus(j) =>
                     /\ lastResp'.code = 200
                     /\ lastResp'.job = j
                     /\ lastResp'.error = jobs[j].error]_vars

\* C18: a step of the worker for version k of job j (its start, a progress
\* report, its completion, its failure) leaves every sibling VersionState of
\* job j and everything of every other job unchanged; of job j it changes the
\* VersionState under k, and the job-level status, error and completion time
\* change only in the step in which the coordinator's Promise.all settles.
C18_WorkerStep(j, k) ==
    /\ lastResp' = NoResp
    /\ \/ \E g \in ProbedGeometries : ProbeOk(j, k, g)
       \/ \E err \in ProbeErrors : ProbeFail(j, k, err)
       \/ \E p \in PercentReports : Progress(j, k, p)
       \/ End(j, k)
       \/ \E err \in EncodeErrors : Error(j, k, err)

C18_OthersUnchanged(j) ==
    /\ DOMAIN jobs' = DOMAIN jobs
    /\ \A j2 \in DOMAIN jobs \ {j} : jobs'[j2] = jobs[j2]
    /\ DOMAIN workers' \ {j} = DOMAIN workers \ {j}
    /\ \A j2 \in DOMAIN workers \ {j} : workers'[j2] = workers[j2] /\ coord'[j2] = coord[j2]
    /\ { f \in outputs' : f[1] # j } = { f \in outputs : f[1] # j }

C18_OnlyOwnSlot(j, k) ==
    /\ C18_OthersUnchanged(j)
    /\ DOMAIN jobs'[j].versions = DOMAIN Versions(j)
    /\ \A k2 \in DOMAIN Versions(j) \ {k} :
           /\ jobs'[j].versions[k2] = Versions(j)[k2]
           /\ workers'[j][k2] = workers[j][k2]
           /\ (<<j, k2>> \in outputs') = (<<j, k2>> \in outputs)
    /\ jobs'[j].versionCount = jobs[j].versionCount
    /\ \/ /\ jobs'[j].status = jobs[j].status
          /\ jobs'[j].error = jobs[j].error
          /\ jobs'[j].completedTime = jobs[j].completedTime
       \/ coord[j] = "awaiting" /\ coord'[j] = "settled"

\* the workers of a job start in one callback, each in its own slot
C18_StartStep ==
    Launch =>
        /\ C18_OthersUnchanged(pc.job)
        /\ jobs'[pc.job] =
               [jobs[pc.job] EXCEPT !.versions =
                    [k \in DOMAIN @ |-> [@[k] EXCEPT !.status = "processing"]]]

C19_StatusMove(old, new) ==
    \/ new = old
    \/ old = "pending" /\ new = "processing"
    \/ old = "processing" /\ new \in {"completed", "failed"}

C19_WorkerMove(old, new) ==
    \/ new = old
    \/ old = "probing" /\ new \in {"encoding", "rejected"}
    \/ old = "encoding" /\ new \in {"resolved", "rejected"}

C19_Step ==
    /\ \A j \in DOMAIN jobs \cap DOMAIN jobs' : \A k \in DOMAIN Versions(j) :
           C19_StatusMove(Versions(j)[k].status, jobs'[j].versions[k].status)
    /\ \A j \in DOMAIN workers : \A k \in DOMAIN workers[j] :
           /\ j \in DOMAIN workers' /\ k \in DOMAIN workers'[j]
           /\ C19_WorkerMove(workers[j][k], workers'[j][k])
    /\ \A j \in DOMAIN jobs' \ DOMAIN jobs : j \notin DOMAIN workers

\* a version is terminal exactly when its worker has settled, with that outcome
C19_OutcomeMatches ==
    \A j \in DOMAIN jobs \cap DOMAIN workers : \A k \in DOMAIN Versions(j) :
        /\ k \in DOMAIN workers[j]
        /\ Versions(j)[k].status = "completed" <=> workers[j][k] = "resolved"
        /\ Versions(j)[k].status = "failed" <=> workers[j][k] = "rejected"

C19_OneRunOneOutcome ==
    [](C19_OutcomeMatches) /\ [][C19_Step]_vars

C19_Witness ==
    \E j \in DOMAIN jobs : \E k, k2 \in DOMAIN Versions(j) :
        /\ Versions(j)[k].status = "failed"
        /\ Versions(j)[k2].status = "completed"
        /\ j \notin uploads
        /\ timers = {}

\* C20: the workers of a job are all started in the step that launches the
\* job, so none is still pending when a sibling has progressed or finished;
\* and whatever its siblings have done, a worker waiting for its probe can
\* get either probe answer, and a worker that is encoding can report progress,
\* end or fail, so the events of two versions can occur in every order.
C20_AllStartedTogether ==
    \A j \in DOMAIN jobs :
        IF j \in DOMAIN workers
        THEN /\ DOMAIN workers[j] = DOMAIN Versions(j)
             /\ \A k \in DOMAIN Versions(j) : Versions(j)[k].status # "pending"
        ELSE \A k \in DOMAIN Versions(j) :
                 Versions(j)[k].status = "pending" /\ Versions(j)[k].progress = 0

C20_NextEventEnabled ==
    \A j \in DOMAIN jobs \cap DOMAIN workers : \A k \in DOMAIN workers[j] :
        pc.state = "idle" =>
            /\ workers[j][k] = "probing" =>
                   /\ ENABLED (\E g \in ProbedGeometries : ProbeOk(j, k, g))
                   /\ \A err \in ProbeErrors : ENABLED ProbeFail(j, k, err)
            /\ workers[j][k] = "encoding" =>
                   /\ ENABLED End(j, k)
                   /\ \A p \in PercentReports : ENABLED Progress(j, k, p)
                   /\ \A err \in EncodeErrors : ENABLED Error(j, k, err)

C20_WorkersRunIndependently ==
    C20_AllStartedTogether /\ C20_NextEventEnabled

C20_Witness ==
    \E j \in DOMAIN jobs \cap DOMAIN workers :
        /\ Cardinality(DOMAIN workers[j]) >= 2
        /\ workers[j][VERSION_PRESETS[1]] = "probing"
        /\ workers[j][VERSION_PRESETS[2]] = "resolved"
        /\ Versions(j)[VERSION_PRESETS[2]].status = "completed"

\* C21: a status query for an unknown job id answers NotFound; for a known id
\* it answers with the job's current status and every version's current status
\* and progress, with an output file name exactly on the completed versions;
\* in both cases it changes neither the registry nor anything else.
C21_StatusStep(j) ==
    GetStatus(j) =>
        /\ UNCHANGED <<jobs, workers, coord, timers, uploads, outputs, nextId, now, pc>>
        /\ IF j \notin DOMAIN jobs
           THEN lastResp'.code = 404 /\ lastResp'.versions = << >>
           ELSE /\ lastResp'.code = 200
                /\ lastResp'.job = j
                /\ lastResp'.status = jobs[j].status
                /\ DOMAIN lastResp'.versions = DOMAIN Versions(j)
                /\ \A k \in DOMAIN Versions(j) :
                       /\ lastResp'.versions[k].status = Versions(j)[k].status
                       /\ lastResp'.versions[k].progress = Versions(j)[k].progress
                       /\ (lastResp'.versions[k].filename # << >>) <=>
                              (Versions(j)[k].status = "completed")

C21_StatusQueryReadsOnly ==
    [][\A j \in JobIds : C21_StatusStep(j)]_vars

C21_Witness ==
    /\ lastResp.op = "status"
    /\ lastResp.code = 200
    /\ \E k, k2 \in DOMAIN lastResp.versions :
           /\ lastResp.versions[k].status = "completed"
           /\ lastResp.versions[k].filename # << >>
           /\ lastResp.versions[k2].status = "processing"
           /\ lastResp.versions[k2].progress > 0

\* C22: the presets selected for N versions are the first N keys of the fixed
\* order version1..version5; the selection for N is a prefix of the selection
\* for N+1; every submission asking for N gets that same selection, whatever
\* the registry holds; and the keys a job was registered with stay as they are.
C22_IsPrefix(s, t) == Len(s) <= Len(t) /\ s = SubSeq(t, 1, Len(s))

C22_PrefixOfCatalog ==
    /\ VERSION_PRESETS = <<"version1", "version2", "version3", "version4", "version5">>
    /\ \A n \in MinVersions..PresetCount :
           /\ Len(versionKeys(n)) = n
           /\ C22_IsPrefix(versionKeys(n), VERSION_PRESETS)
    /\ \A n \in MinVersions..(PresetCount - 1) :
           C22_IsPrefix(versionKeys(n), versionKeys(n + 1))

C22_SelectionOnRegister ==
    pc.state = "registered" =>
        /\ pc.keys = versionKeys(jobs[pc.job].versionCount)
        /\ DOMAIN Versions(pc.job) = Range(pc.keys)

C22_SameCountSameKeys ==
    \A j, j2 \in DOMAIN jobs :
        jobs[j].versionCount = jobs[j2].versionCount =>
            DOMAIN Versions(j) = DOMAIN Versions(j2)

C22_KeysKept ==
    \A j \in DOMAIN jobs \cap DOMAIN jobs' : DOMAIN jobs'[j].versions = DOMAIN Versions(j)

C22_SelectionIsStablePrefix ==
    [](C22_PrefixOfCatalog /\ C22_SelectionOnRegister /\ C22_SameCountSameKeys)
        /\ [][C22_KeysKept]_vars

C22_Witness ==
    /\ pc.state = "registered"
    /\ jobs[pc.job].versionCount = 3
    /\ pc.keys = <<"version1", "version2", "version3">>

\* ---------------------------------------------------------------------
\* C23: for a preset with crop percentage pct > 0 and a source of width W and
\* height H the crop box is width = floor(W * (1 - pct/100)),
\* height = floor(H * (1 - pct/100)), x = floor((W - width) / 2),
\* y = floor((H - height) / 2), so that pct = 10 on 1000x800 gives
\* 900, 720, 50, 40; for pct = 0 no crop is emitted and the chain starts with
\* the scale.
C23_Kept(dimension, pct) == (dimension * (100 - pct)) \div 100

C23_Box(w, h, pct) ==
    <<"crop", C23_Kept(w, pct), C23_Kept(h, pct),
      (w - C23_Kept(w, pct)) \div 2, (h - C23_Kept(h, pct)) \div 2>>

C23_Example ==
    cropFilter([cropPercent |-> 10], [width |-> 1000, height |-> 800])[1]
        = <<"crop", 900, 720, 50, 40>>

C23_CropBoxIsFloorOfKeptShare ==
    spawned # NoCommand =>
        LET pct == PresetValues[spawned.key].cropPercent IN
        /\ C23_Example
        /\ pct > 0 => spawned.videoFilters[1] = C23_Box(spawned.width, spawned.height, pct)
        /\ pct = 0 => /\ spawned.videoFilters[1] = <<"scale", 1920, 1080>>
                      /\ \A i \in 1..Len(spawned.videoFilters) :
                             spawned.videoFilters[i][1] # "crop"

\* ---------------------------------------------------------------------
\* C24: for every preset the video operation list is in the fixed order
\* crop/scale, color, temperature, sharpen, blur, vignette; crop/scale and
\* color are always there, and each of temperature, sharpen, blur and vignette
\* is there exactly when the preset specifies it.
C24_Rank(filter) ==
    CASE filter[1] \in {"crop", "scale"}   -> 1
      [] filter[1] = "eq"                  -> 2
      [] filter[1] = "colortemperature"    -> 3
      [] filter[1] = "unsharp"             -> 4
      [] filter[1] = "gblur"               -> 5
      [] filter[1] = "vignette"            -> 6
      [] OTHER                             -> 0

C24_Has(chain, name) == \E i \in 1..Len(chain) : chain[i][1] = name

C24_InOrder(chain) ==
    /\ \A i \in 1..Len(chain) : C24_Rank(chain[i]) # 0
    /\ \A i \in 1..(Len(chain) - 1) :
          \/ C24_Rank(chain[i]) < C24_Rank(chain[i + 1])
          \/ chain[i][1] = "crop" /\ chain[i + 1][1] = "scale"

C24_VideoChainInFixedOrder ==
    spawned # NoCommand =>
        LET chain  == spawned.videoFilters
            preset == PresetValues[spawned.key]
        IN  /\ C24_InOrder(chain)
            /\ C24_Has(chain, "scale")
            /\ C24_Has(chain, "eq")
            /\ C24_Has(chain, "colortemperature") <=> "colorTemp" \in DOMAIN preset
            /\ C24_Has(chain, "unsharp") <=> "sharpen" \in DOMAIN preset
            /\ C24_Has(chain, "gblur") <=> "gaussianBlur" \in DOMAIN preset
            /\ C24_Has(chain, "vignette") <=> "vignette" \in DOMAIN preset

\* version3 was built: crop, scale, color, temperature and sharpen, no blur
C24_Witness ==
    /\ spawned.key = "version3"
    /\ Len(spawned.videoFilters) = 5
    /\ C24_Has(spawned.videoFilters, "unsharp")
    /\ ~C24_Has(spawned.videoFilters, "gblur")

\* ---------------------------------------------------------------------
\* C25: the transformation plan is a function of the preset and the source
\* geometry alone: two builds with the same preset and geometry yield the same
\* plan (crop box, operation order, speed and pitch values), and a build
\* changes no job and no version state.
C25_Plan(command) == <<command.videoFilters, command.audioFilters, command.options>>

C25_SameInputs(a, b) ==
    a.key = b.key /\ a.width = b.width /\ a.height = b.height

\* a step that builds a command, possibly right after another build
C25_BuildStep ==
    spawned' # NoCommand =>
        /\ jobs' = jobs
        /\ (spawned # NoCommand /\ C25_SameInputs(spawned, spawned'))
               => C25_Plan(spawned') = C25_Plan(spawned)

C26_At(chain, name) == { i \in 1..Len(chain) : chain[i][1] = name }

C26_AudioPlanPitchThenLoudnorm ==
    spawned # NoCommand =>
        LET chain == spawned.audioFilters
            pitch == PresetValues[spawned.key].audioPitch
        IN  /\ C26_At(chain, "loudnorm") # {}
            /\ C26_At(chain, "asetrate") # {} <=> pitch # 0
            /\ C26_At(chain, "aresample") # {} <=> pitch # 0
            /\ \A i \in C26_At(chain, "asetrate") :
                  /\ chain[i][2] = pitch
                  /\ i + 1 \in C26_At(chain, "aresample")
            /\ \A i \in C26_At(chain, "asetrate") \cup C26_At(chain, "aresample") :
                  \A n \in C26_At(chain, "loudnorm") : i < n

\* version2 (pitch -2) was built: retune, resample back, normalise
C26_Witness ==
    /\ spawned.key = "version2"
    /\ Len(spawned.audioFilters) = 3
    /\ spawned.audioFilters[1] = <<"asetrate", -2>>

\* ---------------------------------------------------------------------
\* C27: the encoder invocation carries a playback-speed transform on the video
\* and on the audio stream exactly when the preset's speed is not 1, and the
\* encoder applies it in addition to the plan's visual operations and to the
\* audio pitch and loudness steps, not instead of them.
C27_Carries(command, flag, name) ==
    \E i \in 1..Len(command.options) :
        /\ command.options[i][1] = flag
        /\ \E n \in 1..Len(command.options[i][2]) : command.options[i][2][n][1] = name

\* every step of the chain is among the filters the encoder runs on the stream
C27_Applies(command, flag, chain) ==
    LET applied == AppliedFilter(command.options, flag)
    IN  \A i \in 1..Len(chain) : \E n \in 1..Len(applied) : applied[n] = chain[i]

C27_SpeedAppliedInAddition ==
    spawned # NoCommand =>
        LET speed == PresetValues[spawned.key].speed IN
        /\ C27_Carries(spawned, "-filter:v", "setpts") <=> speed # 100
        /\ C27_Carries(spawned, "-filter:a", "atempo") <=> speed # 100
        /\ C27_Applies(spawned, "-filter:v", spawned.videoFilters)
        /\ C27_Applies(spawned, "-filter:a", spawned.audioFilters)
        /\ speed # 100 =>
              /\ C27_Applies(spawned, "-filter:v", <<<<"setpts", setpts(speed)>>>>)
              /\ C27_Applies(spawned, "-filter:a", <<<<"atempo", speed>>>>)

\* ---------------------------------------------------------------------
\* C28: when probing the source fails or finds no video stream, the version
\* becomes failed with the probe error recorded, the encoder is never invoked
\* for that version, and no output file is created for it.
C28_ProbeFailed(j, k) == jobs[j].versions[k].error \in ProbeErrors

\* the step in which the probe of version k of job j fails
C28_FailStep(j, k) ==
    (workers[j][k] = "probing" /\ workers'[j][k] = "rejected") =>
        /\ \E err \in ProbeErrors :
              /\ ProbeFail(j, k, err)
              /\ jobs'[j].versions[k].error = err
        /\ jobs'[j].versions[k].status = "failed"
        /\ spawned' = NoCommand
        /\ outputs' = outputs

\* no step starts the encoder for a version whose probe has failed
C28_NoLateStart ==
    spawned' # NoCommand =>
        /\ spawned'.job \in DOMAIN jobs
        /\ ~C28_ProbeFailed(spawned'.job, spawned'.key)

C28_Step ==
    /\ C28_NoLateStart
    /\ \A j \in DOMAIN workers : \A k \in DOMAIN workers[j] : C28_FailStep(j, k)

C28_NoFileOfFailedProbe ==
    \A j \in DOMAIN jobs : \A k \in DOMAIN jobs[j].versions :
        C28_ProbeFailed(j, k) =>
            /\ jobs[j].versions[k].status = "failed"
            /\ jobs[j].versions[k].filename = <<>>
            /\ <<j, k>> \notin outputs
            /\ j \in DOMAIN workers => workers[j][k] = "rejected"

C28_ProbeFailureStopsVersion == []C28_NoFileOfFailedProbe /\ [][C28_Step]_vars

\* a source without a video stream: the version has failed and has no file
C28_Witness ==
    \E j \in DOMAIN jobs : \E k \in DOMAIN jobs[j].versions :
        /\ jobs[j].versions[k].error = "No video stream found"
        /\ jobs[j].versions[k].status = "failed"
        /\ <<j, k>> \notin outputs

\* ---------------------------------------------------------------------
\* C29: in every reachable state a version carries an output descriptor (file
\* name and size) exactly when its status is completed, and an error message
\* exactly when its status is failed; the message is the one the probe or the
\* encoder reported for that version.
C29_DescriptorIffCompleted ==
    \A j \in DOMAIN jobs : \A k \in DOMAIN jobs[j].versions :
        LET v == jobs[j].versions[k] IN
        /\ (v.filename # <<>>) <=> (v.status = "completed")
        /\ (v.size # NoSize) <=> (v.status = "completed")
        /\ (v.error # "") <=> (v.status = "failed")

\* the step in which version k of job j fails, and every step after it
C29_MessageStep(j, k) ==
    /\ (jobs[j].versions[k].status # "failed" /\ jobs'[j].versions[k].status = "failed") =>
          \E err \in ProbeErrors \cup EncodeErrors :
              /\ ProbeFail(j, k, err) \/ Error(j, k, err)
              /\ jobs'[j].versions[k].error = err
    /\ jobs[j].versions[k].status = "failed" =>
          jobs'[j].versions[k].error = jobs[j].versions[k].error

C29_Step ==
    jobs' # jobs =>
        \A j \in DOMAIN jobs \cap DOMAIN jobs' : \A k \in DOMAIN jobs[j].versions :
            C29_MessageStep(j, k)

C29_DescriptorAndErrorMatchStatus == []C29_DescriptorIffCompleted /\ [][C29_Step]_vars

\* one version of a job is completed with its file, another has failed in the
\* encoder
C29_Witness ==
    \E j \in DOMAIN jobs : \E k, f \in DOMAIN jobs[j].versions :
        /\ jobs[j].versions[k].status = "completed"
        /\ jobs[j].versions[k].filename = <<j, k>>
        /\ jobs[j].versions[k].size = StatSize
        /\ jobs[j].versions[f].status = "failed"
        /\ jobs[j].versions[f].error \in EncodeErrors

\* ---------------------------------------------------------------------
\* C30: output file names are collision-free across jobs: two distinct pairs
\* of job id and version key never have the same output file, so no worker
\* writes or overwrites a file of another job or of another version, however
\* the workers of concurrent jobs interleave.
C30_Started == { jk \in BuildJobs \X Keys : workers[jk[1]][jk[2]] = "encoding" }

C30_OneFilePerWorker ==
    /\ \A a, b \in BuildJobs \X Keys :
          a # b => outputFilename(a[1], a[2]) # outputFilename(b[1], b[2])
    /\ outputs = { outputFilename(jk[1], jk[2]) : jk \in C30_Started }
    /\ Cardinality(outputs) = Cardinality(C30_Started)

\* a worker that starts its encoder creates a file that was not there
C30_StartStep ==
    spawned' # NoCommand =>
        /\ spawned'.output = outputFilename(spawned'.job, spawned'.key)
        /\ spawned'.output \notin outputs
        /\ outputs' = outputs \cup {spawned'.output}

C31_TerminalJob(j) == jobs[j].status \in {"completed", "failed"}

C31_Step ==
    jobs' # jobs =>
        \A j \in DOMAIN jobs \cap DOMAIN jobs' :
            C31_TerminalJob(j) =>
                /\ jobs'[j].status = jobs[j].status
                /\ jobs'[j].error = jobs[j].error
                /\ jobs'[j].completedTime = jobs[j].completedTime

C31_TerminalJobStatusIsAbsorbing == [][C31_Step]_vars

\* the job failed on one version's probe; a sibling failed later in the
\* encoder with another message, and the job still carries the first one
C31_Witness ==
    \E j \in DOMAIN jobs : \E k \in DOMAIN jobs[j].versions :
        /\ jobs[j].status = "failed"
        /\ jobs[j].error \in ProbeErrors
        /\ jobs[j].versions[k].status = "failed"
        /\ jobs[j].versions[k].error \in EncodeErrors

\* ---------------------------------------------------------------------
\* C32: the retention sweep removes a job and its files only when the job has
\* a completion time older than the threshold; jobs without a completion time
\* (every processing job and every failed job) and all of their output files
\* are left unchanged by every sweep, so a failed job and the outputs of its
\* completed versions are never reaped.
C32_Old(j) ==
    jobs[j].completedTime # NoTime /\ now - jobs[j].completedTime > CLEANUP_AGE

C32_Files(j) == { f \in outputs : f[1] = j }

\* a step that takes a job out of the registry or a file out of the directory
C32_Step ==
    (DOMAIN jobs' # DOMAIN jobs \/ outputs' # outputs) =>
        \A j \in DOMAIN jobs :
            /\ j \notin DOMAIN jobs' => C32_Old(j)
            /\ C32_Files(j) \ outputs' # {} => C32_Old(j)
            /\ jobs[j].completedTime = NoTime =>
                  /\ j \in DOMAIN jobs'
                  /\ jobs'[j] = jobs[j]
                  /\ C32_Files(j) \subseteq outputs'

C32_NoCompletionTime ==
    \A j \in DOMAIN jobs :
        jobs[j].status \in {"processing", "failed"} => jobs[j].completedTime = NoTime

C32_SweepSparesJobsWithoutCompletionTime ==
    []C32_NoCompletionTime /\ [][C32_Step]_vars

\* the sweep has reaped the single conversion; the failed two-version job is
\* still registered and the file of its completed version is still there
C32_Witness ==
    /\ 1 \notin DOMAIN jobs
    /\ C32_Files(1) = {}
    /\ 2 \in DOMAIN jobs
    /\ jobs[2].status = "failed"
    /\ \E k \in DOMAIN jobs[2].versions :
          /\ jobs[2].versions[k].status = "completed"
          /\ jobs[2].versions[k].filename \in outputs

\* ---------------------------------------------------------------------
\* C33: if every probe and every encoder invocation eventually signals
\* completion or an error, every version of every job eventually is completed
\* or failed, and every job eventually leaves processing (a job that the
\* retention sweep has removed has left it).
C33_VersionOpen(j, k) ==
    /\ j \in DOMAIN jobs
    /\ k \in DOMAIN jobs[j].versions
    /\ ~Terminal(jobs[j].versions[k])

C33_JobOpen(j) == j \in DOMAIN jobs /\ jobs[j].status = "processing"

C33_EveryVersionAndJobTerminates ==
    /\ \A j \in RetentionJobs : \A k \in Keys :
          C33_VersionOpen(j, k) ~> ~C33_VersionOpen(j, k)
    /\ \A j \in RetentionJobs : C33_JobOpen(j) ~> ~C33_JobOpen(j)

\* the two-version job has left processing with both versions terminal, one
\* completed and one failed at the probe
C33_Witness ==
    /\ 2 \in DOMAIN jobs
    /\ jobs[2].status # "processing"
    /\ \A k \in DOMAIN jobs[2].versions : Terminal(jobs[2].versions[k])
    /\ \E k \in DOMAIN jobs[2].versions : jobs[2].versions[k].status = "completed"
    /\ \E k \in DOMAIN jobs[2].versions : jobs[2].versions[k].error \in ProbeErrors

\* ---------------------------------------------------------------------
\* C34: for every source width W >= 1, height H >= 1 and crop percentage in
\* 1..99 the computed crop box lies inside the source frame: 0 <= x, 0 <= y,
\* x + cropW <= W, y + cropH <= H, and the left and right margins, and the top
\* and bottom margins, differ by at most 1 pixel.
C34_Fits(size, offset, dimension) ==
    LET far == dimension - size - offset
    IN  /\ 0 <= size
        /\ 0 <= offset
        /\ offset + size <= dimension
        /\ far - offset \in {0, 1}

C34_CropBoxInsideFrame ==
    (spawned.cropPercent \in CropPercents /\ spawned.videoFilters # <<>>) =>
        LET box == spawned.videoFilters[1]
        IN  /\ box[1] = "crop"
            /\ C34_Fits(box[2], box[4], spawned.width)
            /\ C34_Fits(box[3], box[5], spawned.height)

\* 7 percent of 1000x9: 929 columns with margins 35 and 36, 8 rows with
\* margins 0 and 1
C34_Witness ==
    /\ spawned.cropPercent = 7
    /\ spawned.width = 1000
    /\ spawned.height = 9
    /\ spawned.videoFilters # <<>>
    /\ spawned.videoFilters[1] = <<"crop", 929, 8, 35, 0>>

\* C35: in the generic converter, once a conversion has reached a terminal
\* outcome (the job is completed or failed) the uploaded input file is
\* eventually deleted and the processing task eventually returns, whichever
\* way the encoder run ended.
C35_Terminal(g) ==
    /\ g \in DOMAIN jobs
    /\ jobs[g].status \in {"completed", "failed"}

C35_Released(g) ==
    /\ g \in DOMAIN coord
    /\ coord[g] = "done"
    /\ g \notin uploads

C35_InputDeletedAndTaskTerminates ==
    \A g \in GenericJobs : C35_Terminal(g) ~> C35_Released(g)

====
